---- MODULE Spec2Model ----
(***************************************************************************)
(* Model of the starter template: the environment configuration module     *)
(* (src/config.ts) and the two utility functions add and isValidEmail      *)
(* (src/utils.ts, listed in SETUP_GUIDE.md).                               *)
(*                                                                         *)
(* A JavaScript string is a sequence of one-character strings, so that     *)
(* parseInt and the regular expression can scan it character by character. *)
(* A JavaScript value is a tagged record: undefined, a string or a number  *)
(* (NaN is a number).                                                      *)
(***************************************************************************)
EXTENDS Integers, Sequences, FiniteSets, TLC

VARIABLES env, envFile, builds, lastRead, writes,
          email, emailResult, addA, addB, addResult,
          addC, addLaws

vars == <<env, envFile, builds, lastRead, writes,
          email, emailResult, addA, addB, addResult,
          addC, addLaws>>

configVars == <<env, envFile, builds, lastRead, writes>>
utilVars == <<email, emailResult, addA, addB, addResult, addC, addLaws>>

----
(* Bounds *)

MaxPortLen == 3
MaxImports == 2
MaxEnvWrites == 2

----
(* JavaScript values *)

Undefined == [type |-> "undefined"]

Str(s) == [type |-> "string", chars |-> s]

Num(n) == [type |-> "number", nan |-> FALSE, val |-> n]

NaN == [type |-> "number", nan |-> TRUE, val |-> 0]

\* ToBoolean: undefined, the empty string, NaN and 0 are falsy
Truthy(v) ==
  CASE v.type = "undefined" -> FALSE
    [] v.type = "string" -> v.chars # <<>>
    [] v.type = "number" -> ~v.nan /\ v.val # 0

\* a || b
Or(a, b) == IF Truthy(a) THEN a ELSE b

----
(* String literals of the sources *)

Development == <<"d","e","v","e","l","o","p","m","e","n","t">>
Production == <<"p","r","o","d","u","c","t","i","o","n">>
S3000 == <<"3","0","0","0">>
S8080 == <<"8","0","8","0">>
PostgresUrl == <<"p","o","s","t","g","r","e","s","q","l",":","/","/","p","o","s","t","g","r","e","s",":","p","o","s","t","g","r","e","s","@","l","o","c","a","l","h","o","s","t",":","5","4","3","2","/","a","p","p">>
RedisUrl == <<"r","e","d","i","s",":","/","/","l","o","c","a","l","h","o","s","t",":","6","3","7","9">>

----
(* parseInt(string, 10) *)

WhiteSpace == {" ", "\t", "\n", "\r", "\f"}

Digits == <<"0","1","2","3","4","5","6","7","8","9">>

IsDigit(c) == \E i \in DOMAIN Digits : Digits[i] = c

DigitValue(c) == (CHOOSE i \in DOMAIN Digits : Digits[i] = c) - 1

RECURSIVE TrimStart(_)
TrimStart(s) ==
  IF s # <<>> /\ Head(s) \in WhiteSpace THEN TrimStart(Tail(s)) ELSE s

\* the longest prefix of s made of decimal digits
RECURSIVE DigitPrefix(_)
DigitPrefix(s) ==
  IF s # <<>> /\ IsDigit(Head(s)) THEN <<Head(s)>> \o DigitPrefix(Tail(s)) ELSE <<>>

\* the mathematical value of a digit string, most significant digit first
RECURSIVE DigitsToNumber(_, _)
DigitsToNumber(s, acc) ==
  IF s = <<>> THEN acc ELSE DigitsToNumber(Tail(s), acc * 10 + DigitValue(Head(s)))

ParseIntFirstDigit(string) ==
  LET trimmed == TrimStart(string)
      signed == trimmed # <<>> /\ Head(trimmed) \in {"+", "-"}
      sign == IF signed /\ Head(trimmed) = "-" THEN -1 ELSE 1
      body == IF signed THEN Tail(trimmed) ELSE trimmed
      z == DigitPrefix(body)
  IN IF z = <<>> THEN NaN ELSE Num(sign * DigitValue(Head(z)))

\* ECMAScript parseInt with radix 10: skip leading white space, take an
\* optional sign, then the longest digit prefix; NaN when that is empty.
ParseInt(string) ==
  LET trimmed == TrimStart(string)
      signed == trimmed # <<>> /\ Head(trimmed) \in {"+", "-"}
      sign == IF signed /\ Head(trimmed) = "-" THEN -1 ELSE 1
      body == IF signed THEN Tail(trimmed) ELSE trimmed
      z == DigitPrefix(body)
  IN IF z = <<>> THEN NaN ELSE Num(sign * DigitsToNumber(z, 0))

----
(* src/config.ts *)

Keys == {"NODE_ENV", "PORT", "DATABASE_URL", "REDIS_URL"}

\* process.env restricted to the four variables the module reads: each is
\* a string, or undefined when the variable is not set.
Present(e) == {k \in Keys : e[k] # Undefined}

DotenvConfigOverride(e, file) ==
  [k \in Keys |-> IF file[k] # Undefined THEN file[k] ELSE e[k]]

\* dotenv.config(): every variable of the .env file that is not already set
\* in process.env is added to it; a variable already set is left alone.
DotenvConfig(e, file) ==
  [k \in Keys |-> IF e[k] = Undefined THEN file[k] ELSE e[k]]

nodeEnvNoDefault(e) == e["NODE_ENV"]

nodeEnv(e) == Or(e["NODE_ENV"], Str(Development))

port(e) == ParseInt(Or(e["PORT"], Str(S3000)).chars)

databaseUrlOrEmpty(e) == Or(e["DATABASE_URL"], Str(<<>>))

databaseUrl(e) == e["DATABASE_URL"]

redisUrl(e) == e["REDIS_URL"]

configDefault8080(e) ==
  [nodeEnv |-> nodeEnv(e),
   port |-> ParseInt(Or(e["PORT"], Str(S8080)).chars),
   databaseUrl |-> databaseUrl(e),
   redisUrl |-> redisUrl(e)]

\* the object literal exported as config
config(e) ==
  [nodeEnv |-> nodeEnv(e),
   port |-> port(e),
   databaseUrl |-> databaseUrl(e),
   redisUrl |-> redisUrl(e)]

Fields == {"nodeEnv", "port", "databaseUrl", "redisUrl"}

----
(* Inputs *)

PortAlphabet == {" ", "0", "8", "a", "-"}

RECURSIVE StringsUpTo(_, _)
StringsUpTo(alphabet, n) ==
  IF n = 0 THEN {<<>>}
  ELSE LET shorter == StringsUpTo(alphabet, n - 1)
       IN shorter \cup {<<c>> \o s : c \in alphabet, s \in {t \in shorter : Len(t) = n - 1}}

Optional(strings) == {Undefined} \cup {Str(s) : s \in strings}

PortValues == Optional(StringsUpTo(PortAlphabet, MaxPortLen))

NodeEnvValues == Optional({<<>>, Production})

DatabaseUrlValues == Optional({<<>>, PostgresUrl})

RedisUrlValues == Optional({<<>>, RedisUrl})

MakeEnv(n, p, d, r) ==
  [k \in Keys |-> CASE k = "NODE_ENV" -> n [] k = "PORT" -> p
                    [] k = "DATABASE_URL" -> d [] k = "REDIS_URL" -> r]

NoEnvFile == [k \in Keys |-> Undefined]

\* the .env file copied from .env.example
ExampleEnvFile ==
  MakeEnv(Str(Development), Str(S3000), Str(PostgresUrl), Str(RedisUrl))

PortOnlyEnvFile == MakeEnv(Undefined, Str(S8080), Undefined, Undefined)

EnvFiles == {NoEnvFile, ExampleEnvFile, PortOnlyEnvFile}

----
(* The module's life: evaluation, later changes of process.env, readers *)

UtilIdle ==
  /\ email = <<>>
  /\ emailResult = <<>>
  /\ addA = 0
  /\ addB = 0
  /\ addResult = <<>>
  /\ addC = 0
  /\ addLaws = <<>>

ConfigIdle ==
  /\ env = NoEnvFile
  /\ envFile = NoEnvFile
  /\ builds = <<>>
  /\ lastRead = Undefined
  /\ writes = 0

InitWith(nodeEnvs, ports, databaseUrls, redisUrls) ==
  /\ \E n \in nodeEnvs, p \in ports, d \in databaseUrls, r \in redisUrls :
       env = MakeEnv(n, p, d, r)
  /\ envFile \in EnvFiles
  /\ builds = <<>>
  /\ lastRead = Undefined
  /\ writes = 0
  /\ UtilIdle

Init == InitWith(NodeEnvValues, PortValues, DatabaseUrlValues, RedisUrlValues)

ImportConfigInPlace ==
  /\ Len(builds) < MaxImports
  /\ env' = DotenvConfig(env, envFile)
  /\ builds' = [i \in 1..(Len(builds) + 1) |-> [input |-> env', config |-> config(env')]]
  /\ UNCHANGED <<envFile, lastRead, writes, utilVars>>

ImportConfigStale ==
  /\ Len(builds) < MaxImports
  /\ env' = DotenvConfig(env, envFile)
  /\ builds' = Append(builds, [input |-> env', config |-> config(env)])
  /\ UNCHANGED <<envFile, lastRead, writes, utilVars>>

\* Evaluation of the module: dotenv.config() runs, then the object literal
\* is built from process.env as dotenv.config() left it. builds records, for
\* each evaluation, the mapping the literal read and the object it made.
ImportConfig ==
  /\ Len(builds) < MaxImports
  /\ env' = DotenvConfig(env, envFile)
  /\ builds' = Append(builds, [input |-> env', config |-> config(env')])
  /\ UNCHANGED <<envFile, lastRead, writes, utilVars>>

Next == ImportConfig

Spec == Init /\ [][Next]_vars

\* Later code of the process assigns process.env[k]
SetEnv(k, v) ==
  /\ writes < MaxEnvWrites
  /\ env' = [env EXCEPT ![k] = v]
  /\ writes' = writes + 1
  /\ UNCHANGED <<envFile, builds, lastRead, utilVars>>

\* Later code of the process deletes process.env[k]
DeleteEnv(k) ==
  /\ writes < MaxEnvWrites
  /\ env[k] # Undefined
  /\ env' = [env EXCEPT ![k] = Undefined]
  /\ writes' = writes + 1
  /\ UNCHANGED <<envFile, builds, lastRead, utilVars>>

\* A consumer reads one field of an exported config object
ReadConfig(i, f) ==
  /\ i \in DOMAIN builds
  /\ lastRead' = builds[i].config[f]
  /\ UNCHANGED <<env, envFile, builds, writes, utilVars>>

WriteValues(k) ==
  CASE k = "NODE_ENV" -> {Str(Production), Str(<<>>)}
    [] k = "PORT" -> {Str(S8080), Str(<<"a">>)}
    [] k = "DATABASE_URL" -> {Str(PostgresUrl)}
    [] k = "REDIS_URL" -> {Str(RedisUrl)}

LifePortValues == Optional({<<>>, <<"a">>, <<"8", "0">>})

InitLife ==
  InitWith(Optional({Production}), LifePortValues, Optional({PostgresUrl}), {Undefined})

NextLife ==
  \/ ImportConfig
  \/ \E k \in Keys : \E v \in WriteValues(k) : SetEnv(k, v)
  \/ \E k \in Keys : DeleteEnv(k)
  \/ \E i \in 1..MaxImports, f \in Fields : ReadConfig(i, f)

SpecLife == InitLife /\ [][NextLife]_vars

----
(* src/utils.ts *)

addSubtract(a, b) == a - b

addAbs(a, b) == a + (IF b < 0 THEN -b ELSE b)

\* add(a, b): the + of two numbers
add(a, b) == a + b

\* the character class [^\s@]
NotSpaceNorAt(c) == c \notin WhiteSpace /\ c # "@"

\* The automaton of [^\s@]+@[^\s@]+\.[^\s@]+ : state 0 before the local
\* part, 1 inside it, 2 after the @, 3 inside the second class run, 4 after
\* the literal dot, 5 inside the last class run.
RegexStep(q, c) ==
  CASE q = 0 -> IF NotSpaceNorAt(c) THEN {1} ELSE {}
    [] q = 1 -> IF NotSpaceNorAt(c) THEN {1} ELSE IF c = "@" THEN {2} ELSE {}
    [] q = 2 -> IF NotSpaceNorAt(c) THEN {3} ELSE {}
    [] q = 3 -> (IF NotSpaceNorAt(c) THEN {3} ELSE {}) \cup (IF c = "." THEN {4} ELSE {})
    [] q = 4 -> IF NotSpaceNorAt(c) THEN {5} ELSE {}
    [] q = 5 -> IF NotSpaceNorAt(c) THEN {5} ELSE {}

RECURSIVE RegexRun(_, _)
RegexRun(states, s) ==
  IF s = <<>> THEN states
  ELSE RegexRun(UNION {RegexStep(q, Head(s)) : q \in states}, Tail(s))

\* the same pattern without the closing $: a match may end before the
\* string does
RECURSIVE RegexRunPrefix(_, _)
RegexRunPrefix(states, s) ==
  IF s = <<>> \/ 5 \in states THEN states
  ELSE RegexRunPrefix(UNION {RegexStep(q, Head(s)) : q \in states}, Tail(s))

isValidEmailNoEnd(e) == 5 \in RegexRunPrefix({0}, e)

\* emailRegex.test(email): ^ starts the automaton at the first character
\* only and $ accepts at the end of the string only
isValidEmail(e) == 5 \in RegexRun({0}, e)

----
(* Calls of the utility functions *)

MaxEmailLen == 6
MaxAbs == 6

EmailAlphabet == {"a", "@", ".", " "}

TestEmail == <<"t","e","s","t","@","e","x","a","m","p","l","e",".","c","o","m">>
InvalidEmail == <<"i","n","v","a","l","i","d","-","e","m","a","i","l">>

EmailInputs ==
  StringsUpTo(EmailAlphabet, MaxEmailLen)
    \cup {TestEmail, InvalidEmail, <<"a","@","b",".","c">>, <<"a","@","b">>}

InitEmail ==
  /\ ConfigIdle
  /\ email \in EmailInputs
  /\ emailResult = <<>>
  /\ addA = 0
  /\ addB = 0
  /\ addResult = <<>>
  /\ addC = 0
  /\ addLaws = <<>>

CallIsValidEmail ==
  /\ emailResult = <<>>
  /\ emailResult' = <<isValidEmail(email)>>
  /\ UNCHANGED <<configVars, email, addA, addB, addResult, addC, addLaws>>

NextEmail == CallIsValidEmail

SpecEmail == InitEmail /\ [][NextEmail]_vars

InitAdd ==
  /\ ConfigIdle
  /\ email = <<>>
  /\ emailResult = <<>>
  /\ addA \in -MaxAbs..MaxAbs
  /\ addB \in -MaxAbs..MaxAbs
  /\ addResult = <<>>
  /\ addC = 0
  /\ addLaws = <<>>

CallAdd ==
  /\ addResult = <<>>
  /\ addResult' = <<add(addA, addB)>>
  /\ UNCHANGED <<configVars, email, emailResult, addA, addB, addC, addLaws>>

NextAdd == CallAdd

SpecAdd == InitAdd /\ [][NextAdd]_vars

InitAddLaws ==
  /\ ConfigIdle
  /\ email = <<>>
  /\ emailResult = <<>>
  /\ addA \in -MaxAbs..MaxAbs
  /\ addB \in -MaxAbs..MaxAbs
  /\ addC \in -MaxAbs..MaxAbs
  /\ addResult = <<>>
  /\ addLaws = <<>>

\* The calls of add that the algebraic laws compare, each result kept
CallAddLaws ==
  /\ addLaws = <<>>
  /\ addLaws' = << [ab |-> add(addA, addB),
                    ba |-> add(addB, addA),
                    ab_c |-> add(add(addA, addB), addC),
                    a_bc |-> add(addA, add(addB, addC)),
                    a0 |-> add(addA, 0)] >>
  /\ UNCHANGED <<configVars, email, emailResult, addA, addB, addC, addResult>>

NextAddLaws == CallAddLaws

SpecAddLaws == InitAddLaws /\ [][NextAddLaws]_vars

----
(* Properties of the configuration module *)

\* Reading of a PORT value by position, independent of ParseInt: the first
\* position after the leading white space, and the last position of the run
\* of digits that starts there.
FirstNonSpace(s) ==
  CHOOSE i \in 1..(Len(s) + 1) :
    /\ \A j \in 1..(i - 1) : s[j] \in WhiteSpace
    /\ i = Len(s) + 1 \/ s[i] \notin WhiteSpace

StartsWithDigit(s) ==
  FirstNonSpace(s) <= Len(s) /\ IsDigit(s[FirstNonSpace(s)])

RunEnd(s) ==
  CHOOSE j \in FirstNonSpace(s)..Len(s) :
    /\ \A k \in FirstNonSpace(s)..j : IsDigit(s[k])
    /\ j = Len(s) \/ ~IsDigit(s[j + 1])

RECURSIVE Pow10(_)
Pow10(n) == IF n = 0 THEN 1 ELSE 10 * Pow10(n - 1)

RECURSIVE SumDigits(_, _, _)
SumDigits(s, from, to) ==
  IF from > to THEN 0
  ELSE DigitValue(s[from]) * Pow10(to - from) + SumDigits(s, from + 1, to)

LeadingRunValue(s) == SumDigits(s, FirstNonSpace(s), RunEnd(s))

\* a value from which a base-10 scan gets an integer: white space, an
\* optional sign, then a digit
YieldsInteger(s) ==
  LET i == FirstNonSpace(s)
  IN \/ StartsWithDigit(s)
     \/ i < Len(s) /\ s[i] \in {"+", "-"} /\ IsDigit(s[i + 1])

\* C1: in every snapshot port is an integer, never NaN, and it is the
\* default 3000 whenever PORT is absent or does not parse as an integer.
C1_PortAlwaysInteger ==
  \A i \in DOMAIN builds :
    LET p == builds[i].input["PORT"]
        c == builds[i].config
    IN /\ ~c.port.nan
       /\ (p = Undefined \/ ~YieldsInteger(p.chars)) => c.port = Num(3000)

DefaultSnapshot ==
  [nodeEnv |-> Str(Development), port |-> Num(3000),
   databaseUrl |-> Undefined, redisUrl |-> Undefined]

\* C2: a snapshot built from a mapping with none of the four variables is
\* exactly {development, 3000, absent, absent}.
C2_EmptyEnvironmentDefaults ==
  \A i \in DOMAIN builds :
    Present(builds[i].input) = {} => builds[i].config = DefaultSnapshot

C2_Witness ==
  \E i \in DOMAIN builds :
    Present(builds[i].input) = {} /\ builds[i].config.port = Num(3000)

\* C3: nodeEnv is the value of NODE_ENV when it is set and not empty, and
\* "development" otherwise; it is never absent and never the empty string.
C3_EnvironmentMode ==
  \A i \in DOMAIN builds :
    LET v == builds[i].input["NODE_ENV"]
        m == builds[i].config.nodeEnv
    IN /\ (v # Undefined /\ v.chars # <<>>) => m = v
       /\ (v = Undefined \/ v = Str(<<>>)) => m = Str(Development)
       /\ m.type = "string" /\ m.chars # <<>>

C3_Witness ==
  \E i \in DOMAIN builds :
    /\ builds[i].input["NODE_ENV"] = Str(Production)
    /\ builds[i].config.nodeEnv = Str(Production)

\* C4: when PORT, after leading white space, starts with a digit, port is
\* the number its leading run of digits denotes; and port comes out as the
\* default 3000 only when PORT is absent or yields no integer (or itself
\* denotes 3000).
C4_PortLeadingDigits ==
  \A i \in DOMAIN builds :
    LET p == builds[i].input["PORT"]
        c == builds[i].config
    IN /\ (p # Undefined /\ StartsWithDigit(p.chars))
            => c.port = Num(LeadingRunValue(p.chars))
       /\ c.port = Num(3000)
            => \/ p = Undefined
               \/ ~YieldsInteger(p.chars)
               \/ StartsWithDigit(p.chars) /\ LeadingRunValue(p.chars) = 3000

C4_Witness ==
  \E i \in DOMAIN builds :
    /\ builds[i].input["PORT"] = Str(<<"8", "0", "a">>)
    /\ builds[i].config.port = Num(80)

\* C5: databaseUrl is the raw value of DATABASE_URL, the empty string
\* included, and absent when the variable is absent; likewise redisUrl and
\* REDIS_URL; no other variable takes part.
C5_RawConnectionStrings ==
  \A i \in DOMAIN builds :
    /\ builds[i].config.databaseUrl = builds[i].input["DATABASE_URL"]
    /\ builds[i].config.redisUrl = builds[i].input["REDIS_URL"]

C5_Witness ==
  \E i \in DOMAIN builds :
    /\ builds[i].input["DATABASE_URL"] = Undefined
    /\ builds[i].config.databaseUrl = Undefined
    /\ builds[i].input["REDIS_URL"] = Str(<<>>)
    /\ builds[i].config.redisUrl = Str(<<>>)
    /\ builds[i].input["NODE_ENV"] # Undefined

\* C6: a snapshot, once built, keeps its four fields through every later
\* step: writes and deletes of process.env, reads, and later evaluations.
C6_SnapshotNeverChanges ==
  [][\A i \in DOMAIN builds : i \in DOMAIN builds' /\ builds'[i].config = builds[i].config]_vars

C6_Witness ==
  /\ Len(builds) = 2
  /\ writes > 0
  /\ builds[1].config.port = Num(3000)
  /\ env["PORT"] = Str(S8080)
  /\ lastRead = Num(3000)

\* C7 as stated: an evaluation that builds a snapshot leaves process.env as
\* it was.
C7_BuildLeavesEnvironmentUnchanged ==
  [][Len(builds') > Len(builds) => env' = env]_vars

\* C7: an evaluation that builds a snapshot never changes or removes a
\* variable that is set; a variable that is not set gets the value the .env
\* file has for it, and stays unset when the file has none.
C7_BuildOnlyAddsFromEnvFile ==
  [][Len(builds') > Len(builds) =>
       \A k \in Keys :
         /\ env[k] # Undefined => env'[k] = env[k]
         /\ env[k] = Undefined => env'[k] = envFile[k]]_vars

C7_Witness ==
  /\ Len(builds) = 1
  /\ envFile = ExampleEnvFile
  /\ env["NODE_ENV"] = Str(Production)
  /\ env["PORT"] = Str(S3000)

----
(* Properties of the utility functions *)

Positions(s, c) == {i \in DOMAIN s : s[i] = c}

\* local@domain.tail read by positions: exactly one @, not first; no
\* white space; a dot after the @ that is neither right after it nor last
EmailShape(s) ==
  /\ Cardinality(Positions(s, "@")) = 1
  /\ \A i \in DOMAIN s : s[i] \notin WhiteSpace
  /\ LET at == CHOOSE i \in DOMAIN s : s[i] = "@"
     IN /\ at > 1
        /\ \E d \in Positions(s, ".") : d > at + 1 /\ d < Len(s)

\* C9: isValidEmail returns true exactly for the strings of the shape
\* local@domain.tail, and so true for "test@example.com" and "a@b.c", false
\* for "", "invalid-email" and "a@b".
C9_EmailShape ==
  emailResult # <<>> =>
    /\ emailResult[1] = EmailShape(email)
    /\ email \in {TestEmail, <<"a","@","b",".","c">>} => emailResult[1] = TRUE
    /\ email \in {<<>>, InvalidEmail, <<"a","@","b">>} => emailResult[1] = FALSE

C9_Witness ==
  /\ email = TestEmail
  /\ emailResult = <<TRUE>>

\* C10: add(a, b) is the sum of a and b: taking b away from the result gives
\* a back, add(2, 3) is 5 and add(-1, 1) is 0.
C10_AddIsSum ==
  addResult # <<>> =>
    /\ addResult[1] - addB = addA
    /\ (addA = 2 /\ addB = 3) => addResult[1] = 5
    /\ (addA = -1 /\ addB = 1) => addResult[1] = 0

C10_Witness ==
  /\ addA = -1
  /\ addB = 1
  /\ addResult = <<0>>

\* C11: add is commutative and associative and has 0 as its identity:
\* add(a, b) = add(b, a), add(add(a, b), c) = add(a, add(b, c)) and
\* add(a, 0) = a.
C11_AddLaws ==
  addLaws # <<>> =>
    /\ addLaws[1].ab = addLaws[1].ba
    /\ addLaws[1].ab_c = addLaws[1].a_bc
    /\ addLaws[1].a0 = addA

C11_Witness ==
  /\ addLaws # <<>>
  /\ addA = -1
  /\ addB = 2
  /\ addC = -3
  /\ addLaws[1].ab = 1
  /\ addLaws[1].ab_c = -2

====
